---- MODULE Spec2Model ----
(***************************************************************************)
(* Content calendar: the optimistic-concurrency CRUD layer between the     *)
(* calendar UI (components/CalendarView.tsx) and the file-backed store     *)
(* reached through the repository-hosting API (app/actions.ts).            *)
(*                                                                         *)
(* The model follows the newest revision of app/actions.ts (lines 1-378 of *)
(* src/app/actions.ts) and the drag-and-drop handler of CalendarView.      *)
(* Every server action is split at its two remote calls: the read          *)
(* (getContent) and the write (createOrUpdateFileContents); everything     *)
(* between two remote calls is local computation and is part of the step   *)
(* that precedes it.                                                       *)
(***************************************************************************)
EXTENDS Integers, Sequences, FiniteSets, TLC

(***************************************************************************)
(* Bounds of the model.                                                    *)
(***************************************************************************)
\* number of server-action calls issued in one behaviour
MaxCalls == 2
\* number of times the page is rendered again after its first load
MaxRenders == 1
\* instants are 0..MaxTime
MaxTime == 2

Clients == {"A", "B"}
\* the clients whose calendar is operated (drops, page renders); the others
\* act through the form only
Viewers == {"A"}
Times == 0..MaxTime

(***************************************************************************)
(* JavaScript / JSON values.                                               *)
(***************************************************************************)
\* a key that is absent from an object reads as undefined; JSON.stringify
\* drops keys whose value is undefined
Undef == "<undefined>"
JsNull == "<null>"
\* Date.getTime() of an Invalid Date
NaN == -1
\* a start or end of a drop that is not a Date object (the library declares
\* them stringOrDate)
NotADate == -2
\* x instanceof Date
instanceofDate(x) == x # NotADate

\* date strings: fmt "isoZ" is what Date.toISOString() writes and the only
\* form z.string().datetime() accepts; "loose" is any other text that
\* new Date() parses; "bad" is text new Date() cannot parse; "missing" is an
\* absent key
NoDate == [fmt |-> "missing", t |-> 0]
BadDate == [fmt |-> "bad", t |-> 0]
LooseDate(t) == [fmt |-> "loose", t |-> t]
toISOString(t) == [fmt |-> "isoZ", t |-> t]

\* new Date(s).getTime()
NewDate(s) == IF s.fmt \in {"isoZ", "loose"} THEN s.t ELSE NaN

\* new Date(a) < new Date(b): a comparison with NaN is false
DateLess(a, b) == a # NaN /\ b # NaN /\ a < b
DateGeq(a, b) == a # NaN /\ b # NaN /\ a >= b

\* !x for a string-valued field
Falsy(x) == x \in {Undef, JsNull, ""}

\* one element of the stored JSON array: an object, or the JSON value null
Obj(id, title, start, end, status, notes, attachment, extra) ==
    [kind |-> "object", id |-> id, title |-> title, start |-> start,
     end |-> end, status |-> status, notes |-> notes,
     attachment |-> attachment, extra |-> extra]

NullEntry ==
    [kind |-> "null", id |-> Undef, title |-> Undef, start |-> NoDate,
     end |-> NoDate, status |-> Undef, notes |-> Undef,
     attachment |-> Undef, extra |-> Undef]

\* BigCalendarEvent: start and end are Date objects (their time value)
BigEvent(id, title, status, notes, attachment, start, end) ==
    [id |-> id, title |-> title, status |-> status, notes |-> notes,
     attachment |-> attachment, start |-> start, end |-> end]

(***************************************************************************)
(* Text of the stored file.  type: "array" (a JSON array, its elements in  *)
(* items), "object" (valid JSON that is not an array), "invalid" (not      *)
(* JSON), "empty" (no content).  fmt: "pretty" is the two-space layout of  *)
(* JSON.stringify(x, null, 2); "compact" is any other layout.              *)
(***************************************************************************)
Text(fmt, type, items) == [fmt |-> fmt, type |-> type, items |-> items]
EmptyArrayText == Text("compact", "array", <<>>)

\* JSON.stringify(events, null, 2)
JSONstringify(events) == Text("pretty", "array", events)

\* JSON.parse(content): [threw, isArray, value]
JSONparse(content) ==
    IF content.type \in {"invalid", "empty"}
    THEN [threw |-> TRUE, isArray |-> FALSE, value |-> <<>>]
    ELSE [threw |-> FALSE, isArray |-> content.type = "array",
          value |-> content.items]

\* the revision token of a file: the hash of its content; no token is <<>>
NoSha == <<>>
ShaOf(text) == <<text>>

(***************************************************************************)
(* Messages.  A message is its fixed text and the value interpolated into  *)
(* it ("" when nothing is interpolated).                                   *)
(***************************************************************************)
Msg(text, arg) == [text |-> text, arg |-> arg]
NoMsg == Msg("", "")

FetchFailedMsg == Msg("Failed to fetch file from GitHub", "500")
ParseFailedMsg ==
    Msg("Failed to parse the calendar data file. Please check its content on GitHub.", "")
ConflictMsg ==
    Msg("Update Conflict (409): The file was modified by someone else. Please refresh and try again.", "")
UnprocessableMsg ==
    Msg("Update Failed (422): Could not process the update.", "")
UpdateFailedMsg == Msg("Failed to update file on GitHub", "500")
\* the TypeError of reading a property of null, caught by the action
NullReadMsg == Msg("Cannot read properties of null (reading 'id')", "")
UpdateNotFoundMsg(id) == Msg("Event ID not found. It might have been deleted.", id)
DeleteNotFoundMsg(id) == Msg("Event ID not found.", id)
UpdateInvalidMsg == Msg("Invalid data provided.", "")
CreateInvalidMsg == Msg("Invalid data for new event.", "")
DeleteInvalidMsg == Msg("Invalid Event ID for deletion.", "")
UpdatedMsg == Msg("Event updated successfully!", "")
CreatedMsg == Msg("Event created successfully!", "")
DeletedMsg == Msg("Event deleted successfully!", "")

\* the message of a write request: `Update event: ${title} (ID: ${id})`
commitMessageNoId(kind, title, id) == [kind |-> kind, title |-> title, id |-> ""]
commitMessage(kind, title, id) == [kind |-> kind, title |-> title, id |-> id]
NoCommitMessage == commitMessage("", "", "")

\* the result of a server action; errors is present only when hasErrors
Result(success, message, hasErrors, errors) ==
    [success |-> success, message |-> message, hasErrors |-> hasErrors,
     errors |-> errors]
NoResult == Result(FALSE, NoMsg, FALSE, <<>>)

(***************************************************************************)
(* The remote store: one path of the repository.                           *)
(* state: "absent" (404), "dir" (the path is not a file), "file".          *)
(***************************************************************************)
Store(state, text) == [state |-> state, text |-> text]

\* HTTP statuses of the store's answers
StatusOk == 200
StatusConflict == 409
StatusUnprocessable == 422
StatusOther == 500

\* a store that takes a write without token for an overwrite
StoreVerdictNoToken(st, sha) ==
    CASE st.state = "dir" -> StatusUnprocessable
      [] st.state = "absent" -> IF sha = NoSha THEN StatusOk ELSE StatusUnprocessable
      [] OTHER -> IF sha = NoSha \/ sha = ShaOf(st.text) THEN StatusOk
                  ELSE StatusConflict
\* a store that accepts every write to a file path, whatever its token
StoreVerdictAny(st, sha) ==
    IF st.state = "dir" THEN StatusUnprocessable ELSE StatusOk
\* the store's verdict on createOrUpdateFileContents(content, sha): it
\* accepts a write to an existing file only with the file's current token,
\* and a write without token only when there is nothing at the path
StoreVerdict(st, sha) ==
    CASE st.state = "absent" -> IF sha = NoSha THEN StatusOk ELSE StatusUnprocessable
      [] st.state = "dir" -> StatusUnprocessable
      [] OTHER -> IF sha = NoSha THEN StatusUnprocessable
                  ELSE IF sha = ShaOf(st.text) THEN StatusOk
                  ELSE StatusConflict

\* the answers a write request can get: the store's verdict, or a failure
\* that has nothing to do with the revision (permission, network)
WriteStatuses(st, sha) == {StoreVerdict(st, sha), StatusOther}

\* a read that takes an absent file for a failure
getFileContentStrict(st, fault) ==
    IF fault \/ st.state # "file"
    THEN [threw |-> TRUE, content |-> EmptyArrayText, sha |-> NoSha,
          message |-> FetchFailedMsg]
    ELSE [threw |-> FALSE, content |-> st.text, sha |-> ShaOf(st.text),
          message |-> NoMsg]

\* a read that takes every failure for an absent file
getFileContentSwallow(st, fault) ==
    IF ~fault /\ st.state = "file"
    THEN [threw |-> FALSE, content |-> st.text, sha |-> ShaOf(st.text),
          message |-> NoMsg]
    ELSE [threw |-> FALSE, content |-> EmptyArrayText, sha |-> NoSha,
          message |-> NoMsg]

\* getFileContent(): [threw, content, sha, message]; fault is the store
\* failing with a status other than 404
getFileContent(st, fault) ==
    IF fault
    THEN [threw |-> TRUE, content |-> EmptyArrayText, sha |-> NoSha,
          message |-> FetchFailedMsg]
    ELSE IF st.state = "file"
    THEN IF st.text.type = "empty"
         THEN [threw |-> FALSE, content |-> EmptyArrayText,
               sha |-> ShaOf(st.text), message |-> NoMsg]
         ELSE [threw |-> FALSE, content |-> st.text,
               sha |-> ShaOf(st.text), message |-> NoMsg]
    ELSE [threw |-> FALSE, content |-> EmptyArrayText, sha |-> NoSha,
          message |-> NoMsg]

\* a mapping that does not tell the conflict from the other failures
updateFileContentErrorFlat(status) == UpdateFailedMsg

\* the message updateFileContent throws for a failed write
updateFileContentError(status) ==
    IF status = StatusConflict THEN ConflictMsg
    ELSE IF status = StatusUnprocessable THEN UnprocessableMsg
    ELSE UpdateFailedMsg

\* a read for update that takes unparsable content for the empty collection
fetchRawLenient(st, fault) ==
    LET got == getFileContent(st, fault)
        parsed == JSONparse(got.content)
    IN  [threw |-> got.threw,
         events |-> IF parsed.threw \/ ~parsed.isArray THEN <<>> ELSE parsed.value,
         sha |-> got.sha, message |-> got.message]

\* fetchRawCalendarEventsForUpdate(): [threw, events, sha, message]
fetchRawCalendarEventsForUpdate(st, fault) ==
    LET got == getFileContent(st, fault)
        parsed == JSONparse(got.content)
    IN  IF got.threw
        THEN [threw |-> TRUE, events |-> <<>>, sha |-> NoSha,
              message |-> got.message]
        ELSE IF parsed.threw \/ ~parsed.isArray
        THEN [threw |-> TRUE, events |-> <<>>, sha |-> got.sha,
              message |-> ParseFailedMsg]
        ELSE [threw |-> FALSE, events |-> parsed.value, sha |-> got.sha,
              message |-> NoMsg]

(***************************************************************************)
(* Validation (the zod schemas).                                           *)
(***************************************************************************)
Issue(path, message) == [path |-> path, message |-> message]

\* z.string().min(1, message) on a required key
StringIssues(path, v, message) ==
    IF v \in {Undef, JsNull} THEN <<Issue(path, "Required")>>
    ELSE IF v = "" THEN <<Issue(path, message)>>
    ELSE <<>>

\* z.string().datetime({message}) on a required key
DatetimeIssues(path, v, message) ==
    IF v.fmt = "missing" THEN <<Issue(path, "Required")>>
    ELSE IF v.fmt # "isoZ" THEN <<Issue(path, message)>>
    ELSE <<>>

\* a required key is missing: the object schema aborts and the refinement
\* does not run
Aborted(d, withId) ==
    \/ withId /\ d.id \in {Undef, JsNull}
    \/ d.title \in {Undef, JsNull}
    \/ d.status \in {Undef, JsNull}
    \/ d.start.fmt = "missing"
    \/ d.end.fmt = "missing"

\* a refinement that lets an end equal to the start through
dateRefinementLax(d) == ~DateLess(NewDate(d.end), NewDate(d.start))
\* dateRefinement
dateRefinement(d) == DateLess(NewDate(d.start), NewDate(d.end))

RefineIssues(d, withId) ==
    IF ~Aborted(d, withId) /\ ~dateRefinement(d)
    THEN <<Issue("end", "Publishing date must be after approval date")>>
    ELSE <<>>

BaseIssues(d, withId) ==
    (IF withId THEN StringIssues("id", d.id, "String must contain at least 1 character(s)")
     ELSE <<>>)
    \o StringIssues("title", d.title, "Title is required")
    \o DatetimeIssues("start", d.start, "Invalid approval date/time format")
    \o DatetimeIssues("end", d.end, "Invalid publishing date/time format")
    \o StringIssues("status", d.status, "Status is required")

\* eventSchema.safeParse(d).error.issues (<<>> when the parse succeeds)
eventSchemaIssues(d) == BaseIssues(d, TRUE) \o RefineIssues(d, TRUE)
\* newEventSchema.safeParse(d).error.issues
newEventSchemaIssues(d) == BaseIssues(d, FALSE) \o RefineIssues(d, FALSE)
\* deleteEventSchema.safeParse({eventId}).error.issues
deleteEventSchemaIssues(eventId) ==
    IF eventId \in {Undef, JsNull} THEN <<Issue("eventId", "Required")>>
    ELSE IF eventId = "" THEN <<Issue("eventId", "Event ID is required for deletion")>>
    ELSE <<>>

\* validationResult.data: z.object() keeps the keys of the schema and strips
\* every other key
SchemaData(d, id) ==
    Obj(id, d.title, d.start, d.end, d.status, d.notes, d.attachment, Undef)

(***************************************************************************)
(* The three transformations of the collection.                            *)
(***************************************************************************)
Min(S) == CHOOSE x \in S : \A y \in S : x <= y

\* positions holding the JSON value null: e.id throws there
NullAt(events) == {i \in 1..Len(events) : events[i].kind = "null"}
MatchAt(events, id) ==
    {i \in 1..Len(events) : events[i].kind = "object" /\ events[i].id = id}

\* currentEvents.findIndex(e => e.id === id) and currentEvents.find(...):
\* [threw, index]; index 0 is "not found" (-1, undefined); the scan stops
\* at the first match and throws at a null it meets before one
findIndex(events, id) ==
    LET m == MatchAt(events, id)
        n == NullAt(events)
    IN  IF m = {}
        THEN [threw |-> n # {}, index |-> 0]
        ELSE IF n # {} /\ Min(n) < Min(m)
        THEN [threw |-> TRUE, index |-> 0]
        ELSE [threw |-> FALSE, index |-> Min(m)]

\* currentEvents[eventIndex] = validatedEvent
\* a replacement that overwrites every element
ReplaceAtEvery(events, index, ev) == [i \in 1..Len(events) |-> ev]
\* a replacement that moves the replaced element to the end
ReplaceAtEnd(events, index, ev) ==
    Append(SubSeq(events, 1, index - 1) \o SubSeq(events, index + 1, Len(events)), ev)
ReplaceAt(events, index, ev) ==
    [i \in 1..Len(events) |-> IF i = index THEN ev ELSE events[i]]

\* [...currentEvents, newEvent]
\* a create that writes the new event alone
AppendEventAlone(events, ev) == <<ev>>
AppendEvent(events, ev) == Append(events, ev)

\* currentEvents.filter(event => event.id !== eventId): [threw, events]
\* a filter that keeps every element
\* a filter that returns the remaining elements last to first
filterOutReversed(events, eventId) ==
    LET kept == SelectSeq(events, LAMBDA e : e.id # eventId)
    IN  [threw |-> NullAt(events) # {},
         events |-> [i \in 1..Len(kept) |-> kept[Len(kept) + 1 - i]]]
filterOutNothing(events, eventId) == [threw |-> NullAt(events) # {}, events |-> events]
filterOut(events, eventId) ==
    [threw |-> NullAt(events) # {},
     events |-> SelectSeq(events, LAMBDA e : e.id # eventId)]

\* randomUUID(): n identifiers were generated before this one
\* a generator that repeats itself
randomUUIDRepeated(n) == "uuid-0"
randomUUID(n) == "uuid-" \o ToString(n)

(***************************************************************************)
(* The display read.                                                       *)
(***************************************************************************)
\* a test that keeps an entry whose end is its start
DisplayableLax(e) ==
    /\ e.kind = "object"
    /\ ~Falsy(e.id) /\ ~Falsy(e.title) /\ ~Falsy(e.status)
    /\ NewDate(e.start) # NaN /\ NewDate(e.end) # NaN
    /\ NewDate(e.start) <= NewDate(e.end)

\* the test of one stored entry in the loop of fetchCalendarEvents
Displayable(e) ==
    /\ e.kind = "object"
    /\ ~Falsy(e.id) /\ ~Falsy(e.title) /\ ~Falsy(e.status)
    /\ e.start.fmt # "missing" /\ e.end.fmt # "missing"
    /\ NewDate(e.start) # NaN /\ NewDate(e.end) # NaN
    /\ ~DateGeq(NewDate(e.start), NewDate(e.end))

ToBigEvent(e) ==
    BigEvent(e.id, e.title, e.status, e.notes, e.attachment,
             NewDate(e.start), NewDate(e.end))

RECURSIVE ProcessEvents(_)
ProcessEvents(events) ==
    IF events = <<>> THEN <<>>
    ELSE (IF Displayable(Head(events)) THEN <<ToBigEvent(Head(events))>> ELSE <<>>)
         \o ProcessEvents(Tail(events))

\* a display read that shows its failure as an entry of the calendar
fetchCalendarEventsLoud(st, fault) ==
    LET got == getFileContent(st, fault)
        parsed == JSONparse(got.content)
    IN  IF got.threw \/ parsed.threw \/ ~parsed.isArray
        THEN <<BigEvent("<error>", "", "", Undef, Undef, 0, 0)>>
        ELSE ProcessEvents(parsed.value)

\* fetchCalendarEvents(): never throws
fetchCalendarEvents(st, fault) ==
    LET got == getFileContent(st, fault)
        parsed == JSONparse(got.content)
    IN  IF got.threw THEN <<>>
        ELSE IF parsed.threw \/ ~parsed.isArray THEN <<>>
        ELSE ProcessEvents(parsed.value)

(***************************************************************************)
(* State.                                                                  *)
(***************************************************************************)
VARIABLES
    store,        \* the remote file
    calls,        \* the handler invocations of the clients, in issue order
    localEvents,  \* per client: the mirror (useState localEvents)
    uuids,        \* number of identifiers randomUUID() has generated
    foreignSince, \* per client: another client has committed since the
                  \* client's mirror was last loaded
    renders       \* number of times the page was rendered again

vars == <<store, calls, localEvents, uuids, foreignSince, renders>>

Alert(text, inner) == [text |-> text, inner |-> inner]
NoAlert == Alert("", NoMsg)
DropTypeAlert == Alert("Error processing dropped event dates.", NoMsg)
DropInvalidAlert == Alert("Event end time must be after start time.", NoMsg)
UpdateFailedAlert(message) == Alert("Error updating schedule: . Reverting change.", message)
UnexpectedAlert ==
    Alert("An unexpected error occurred while saving the schedule change. Reverting change.", NoMsg)

\* one invocation of handleEventDrop or of a form handler, with the call of
\* the server action it makes.  alert is what the handler showed with
\* alert().  pc: "called" (issued, the action has not
\* run), "writing" (the read is done, the write request is not answered),
\* "returned" (the action has returned its result), "closed" (the caller's
\* continuation has run).  readFault: the read of the action failed with a
\* status other than 404.  escaped: an exception left the action.
\* commitMessage: the message of the write request.  isModalOpen, isLoading,
\* isDeleting, errorMessage, fieldErrors: the state of the modal a form
\* handler runs in
NoFieldErrors == [present |-> FALSE, issues |-> <<>>]
NewCall(client, op, origin, input, originalEvents, foreign) ==
    [client |-> client, op |-> op, origin |-> origin, input |-> input,
     event |-> NullEntry, pc |-> "called", sha |-> NoSha, newText |-> EmptyArrayText,
     target |-> 0, status |-> 0, result |-> NoResult,
     reads |-> 0, writes |-> 0, revalidated |-> FALSE,
     originalEvents |-> originalEvents, mirrorBefore |-> originalEvents,
     refreshedSince |-> FALSE, foreignCommit |-> foreign,
     thrown |-> FALSE, outcome |-> "none", alert |-> NoAlert,
     readFault |-> FALSE, escaped |-> FALSE,
     commitMessage |-> NoCommitMessage,
     isModalOpen |-> origin = "form",
     isLoading |-> origin = "form" /\ op # "delete",
     isDeleting |-> origin = "form" /\ op = "delete",
     errorMessage |-> NoMsg, fieldErrors |-> NoFieldErrors]

(***************************************************************************)
(* The server actions, up to their write request.                          *)
(***************************************************************************)
\* the action returns result; outcome names the return statement taken
Return(call, outcome, result) ==
    [call EXCEPT !.pc = "returned", !.outcome = outcome, !.result = result]

\* a result that carries a field-error list on every failure
FailureWithErrors(message) == Result(FALSE, message, TRUE, <<>>)
Failure(message) == Result(FALSE, message, FALSE, <<>>)
Invalid(message, issues) == Result(FALSE, message, TRUE, issues)
Success(message) == Result(TRUE, message, FALSE, <<>>)

\* a catch block that throws the error again
CatchBlockRethrow(call, outcome, message) ==
    [call EXCEPT !.pc = "returned", !.outcome = outcome, !.escaped = TRUE]
\* the catch block of an action: the error becomes the message of a result
CatchBlock(call, outcome, message) == Return(call, outcome, Failure(message))

\* the action has computed the new content and awaits updateFileContent
AwaitWrite(call, events, sha, target, message) ==
    [call EXCEPT !.pc = "writing", !.newText = JSONstringify(events),
                 !.sha = sha, !.target = target, !.commitMessage = message]

\* updateCalendarEventRefined, from its start up to the write request
updateCalendarEventRefinedRead(call, st, fault) ==
    LET issues == eventSchemaIssues(call.input)
        validatedEvent == SchemaData(call.input, call.input.id)
        raw == fetchRawCalendarEventsForUpdate(st, fault)
        found == findIndex(raw.events, validatedEvent.id)
        read == [call EXCEPT !.reads = 1, !.event = validatedEvent,
                              !.readFault = fault]
    IN  IF issues # <<>>
        THEN Return(call, "validation", Invalid(UpdateInvalidMsg, issues))
        ELSE IF raw.threw
        THEN CatchBlock(read, "store", raw.message)
        ELSE IF found.threw
        THEN CatchBlock(read, "typeerror", NullReadMsg)
        ELSE IF found.index = 0
        THEN Return(read, "notfound", Failure(UpdateNotFoundMsg(validatedEvent.id)))
        ELSE AwaitWrite(read, ReplaceAt(raw.events, found.index, validatedEvent),
                        raw.sha, found.index,
                        commitMessage("Update event", validatedEvent.title,
                                      validatedEvent.id))

\* createCalendarEvent, from its start up to the write request; n
\* identifiers were generated before
createCalendarEventRead(call, st, fault, n) ==
    LET issues == newEventSchemaIssues(call.input)
        newEvent == SchemaData(call.input, randomUUID(n))
        raw == fetchRawCalendarEventsForUpdate(st, fault)
        read == [call EXCEPT !.reads = 1, !.event = newEvent, !.readFault = fault]
    IN  IF issues # <<>>
        THEN Return(call, "validation", Invalid(CreateInvalidMsg, issues))
        ELSE IF raw.threw
        THEN CatchBlock(read, "store", raw.message)
        ELSE AwaitWrite(read, AppendEvent(raw.events, newEvent), raw.sha,
                        Len(raw.events) + 1,
                        commitMessage("Create event", newEvent.title, newEvent.id))

\* a delete that reads the store before it looks at its input
deleteCalendarEventReadFirst(call, st, fault) ==
    LET eventId == call.input.id
        issues == deleteEventSchemaIssues(eventId)
        raw == fetchRawCalendarEventsForUpdate(st, fault)
        read == [call EXCEPT !.reads = 1, !.readFault = fault]
    IN  IF raw.threw
        THEN CatchBlock(read, "store", raw.message)
        ELSE IF issues # <<>>
        THEN Return(read, "validation", Invalid(DeleteInvalidMsg, issues))
        ELSE Return(read, "notfound", Failure(DeleteNotFoundMsg(eventId)))

\* deleteCalendarEvent, from its start up to the write request
deleteCalendarEventRead(call, st, fault) ==
    LET eventId == call.input.id
        issues == deleteEventSchemaIssues(eventId)
        raw == fetchRawCalendarEventsForUpdate(st, fault)
        found == findIndex(raw.events, eventId)
        updated == filterOut(raw.events, eventId)
        read == [call EXCEPT !.reads = 1, !.readFault = fault]
    IN  IF issues # <<>>
        THEN Return(call, "validation", Invalid(DeleteInvalidMsg, issues))
        ELSE IF raw.threw
        THEN CatchBlock(read, "store", raw.message)
        ELSE IF found.threw
        THEN CatchBlock(read, "typeerror", NullReadMsg)
        ELSE IF found.index = 0
        THEN Return(read, "notfound", Failure(DeleteNotFoundMsg(eventId)))
        ELSE IF updated.threw
        THEN CatchBlock(read, "typeerror", NullReadMsg)
        ELSE AwaitWrite(read, updated.events, raw.sha, found.index,
                        commitMessage("Delete event", raw.events[found.index].title,
                                      eventId))

ActionRead(call, st, fault, n) ==
    CASE call.op = "update" -> updateCalendarEventRefinedRead(call, st, fault)
      [] call.op = "create" -> createCalendarEventRead(call, st, fault, n)
      [] OTHER -> deleteCalendarEventRead(call, st, fault)

SuccessMsg(op) ==
    CASE op = "update" -> UpdatedMsg
      [] op = "create" -> CreatedMsg
      [] OTHER -> DeletedMsg

\* where the action goes after updateFileContent answered: it returns; it
\* never reads or writes again
\* an action that starts again from its read after a conflict
AfterWriteReread(status) == IF status = StatusConflict THEN "called" ELSE "returned"
\* an action that asks again after a conflict
AfterWriteRetry(status) == IF status = StatusConflict THEN "writing" ELSE "returned"
AfterWrite(status) == "returned"

\* an action that revalidates the page whatever the store answered
ActionWrittenRevalidates(call, status) ==
    LET wrote == [call EXCEPT !.writes = call.writes + 1, !.status = status,
                              !.pc = AfterWrite(status), !.revalidated = TRUE]
    IN  IF status = StatusOk
        THEN [wrote EXCEPT !.outcome = "success",
                           !.result = Success(SuccessMsg(call.op))]
        ELSE [CatchBlock(wrote, "write", updateFileContentError(status))
                 EXCEPT !.pc = AfterWrite(status)]
\* an action that reports a failure whatever the store answered
ActionWrittenAlwaysFails(call, status) ==
    CatchBlock([call EXCEPT !.writes = call.writes + 1, !.status = status],
               "write", updateFileContentError(status))
\* the action from the answer to its write request up to its return
ActionWritten(call, status) ==
    LET wrote == [call EXCEPT !.writes = call.writes + 1, !.status = status,
                              !.pc = AfterWrite(status)]
    IN  IF status = StatusOk
        THEN [wrote EXCEPT !.revalidated = TRUE, !.outcome = "success",
                           !.result = Success(SuccessMsg(call.op))]
        ELSE [CatchBlock(wrote, "write", updateFileContentError(status))
                 EXCEPT !.pc = AfterWrite(status)]

(***************************************************************************)
(* The client: CalendarView.                                               *)
(***************************************************************************)
\* originalEvents = [...localEvents]
ShallowCopy(events) == [i \in 1..Len(events) |-> events[i]]

\* originalEvents.map(ev => ev.id === event.id ? updatedOptimisticEvent : ev)
OptimisticEvents(originalEvents, event, start, end) ==
    [i \in 1..Len(originalEvents) |->
        IF originalEvents[i].id = event.id
        THEN [event EXCEPT !.start = start, !.end = end]
        ELSE originalEvents[i]]

\* dataForAction of handleEventDrop: id, title, status, notes, start, end
dataForAction(event, start, end) ==
    Obj(event.id, event.title, toISOString(start), toISOString(end),
        event.status, event.notes, Undef, Undef)

\* setLocalEvents(originalEvents) of the failure branches
\* a failure branch that leaves the optimistic mirror in place
RollbackKeep(originalEvents, current) == current
Rollback(originalEvents, current) == originalEvents

(***************************************************************************)
(* Inputs.                                                                 *)
(***************************************************************************)
E1 == Obj("e1", "Launch post", toISOString(0), toISOString(1), "Draft",
          Undef, "https://a", "x")
\* dropped by the display read: its end is not after its start, its start is
\* not in the form toISOString() writes, and it has no status
E2 == Obj("e2", "Recap", LooseDate(1), toISOString(1), Undef, JsNull, Undef, Undef)

\* dropped by the display read for one reason only: its end is before its
\* start (E3), its end is its start (E4)
E3 == Obj("e3", "Late", toISOString(2), toISOString(1), "Draft", "", Undef, Undef)
E4 == Obj("e4", "Instant", toISOString(1), toISOString(1), "Draft", "", Undef, Undef)

InitCollections ==
    {<<E3, E1, E4, E2>>, <<E1, NullEntry>>, <<NullEntry, E1>>}

InitStores ==
    {Store("absent", EmptyArrayText), Store("dir", EmptyArrayText),
     Store("file", Text("compact", "invalid", <<>>)),
     Store("file", Text("compact", "object", <<>>)),
     Store("file", Text("compact", "empty", <<>>))}
    \cup {Store("file", Text("compact", "array", c)) : c \in InitCollections}

\* what a form can send to createCalendarEvent
CreateInputs ==
    {Obj(Undef, "New", toISOString(0), toISOString(2), "Draft", "", "", Undef),
     Obj(Undef, "New", toISOString(1), toISOString(1), "Draft", "", "", Undef)}

\* what a form can send to updateCalendarEventRefined
UpdateInputs ==
    {Obj(id, "Edited", toISOString(1), toISOString(2), "Approved", "", "", Undef) :
        id \in {"e1", "missing-id"}}
    \cup {Obj("e1", "", toISOString(2), toISOString(1), "Approved", "", "", Undef)}

\* what a form can send to deleteCalendarEvent
DeleteInputs ==
    {Obj(id, Undef, NoDate, NoDate, Undef, Undef, Undef, Undef) : id \in {"e1", ""}}

\* the slots an event can be dropped on: <<start, end>>
DropSlots == (Times \X Times) \cup {<<NaN, 1>>, <<1, NotADate>>}

Init ==
    /\ store \in InitStores
    /\ calls = <<>>
    /\ localEvents = [c \in Clients |-> fetchCalendarEvents(store, FALSE)]
    /\ uuids = 0
    /\ foreignSince = [c \in Clients |-> FALSE]
    /\ renders = 0

(***************************************************************************)
(* Actions.                                                                *)
(***************************************************************************)
Issue1(c, call) ==
    /\ Len(calls) < MaxCalls
    /\ calls' = Append(calls, call)

\* the modal of client c is open on a mutation that has not come back: its
\* buttons are disabled and its overlay covers the calendar
ModalBusy(c) ==
    \E k \in 1..Len(calls) :
        calls[k].client = c /\ calls[k].origin = "form" /\ calls[k].pc # "closed"

\* a handleEventDrop that returned before it called the server action
DropEnded(c, outcome, alert, originalEvents, thrown) ==
    [NewCall(c, "update", "drag", NullEntry, originalEvents, FALSE)
        EXCEPT !.pc = "closed", !.outcome = outcome, !.alert = alert,
               !.thrown = thrown]

\* handleEventDrop, up to its await: the drop of the i-th event of the
\* mirror on the slot start..end.  The two guards return early; after
\* them the mirror is set, and start.toISOString() throws a RangeError on
\* an Invalid Date before the action is called
HandleEventDrop(c, i, start, end) ==
    /\ ~ModalBusy(c)
    /\ i \in 1..Len(localEvents[c])
    /\ LET event == localEvents[c][i]
           originalEvents == ShallowCopy(localEvents[c])
           data == dataForAction(event, start, end)
       IN  IF ~instanceofDate(start) \/ ~instanceofDate(end)
           THEN /\ Issue1(c, DropEnded(c, "rejected", DropTypeAlert, <<>>, FALSE))
                /\ UNCHANGED <<store, localEvents, uuids, foreignSince, renders>>
           ELSE IF DateGeq(start, end)
           THEN /\ Issue1(c, DropEnded(c, "rejected", DropInvalidAlert, <<>>, FALSE))
                /\ UNCHANGED <<store, localEvents, uuids, foreignSince, renders>>
           ELSE IF start = NaN \/ end = NaN
           THEN /\ Issue1(c, DropEnded(c, "rangeerror", NoAlert, originalEvents, TRUE))
                /\ localEvents' = [localEvents EXCEPT ![c] =
                                      OptimisticEvents(originalEvents, event, start, end)]
                /\ UNCHANGED <<store, uuids, foreignSince, renders>>
           ELSE /\ Issue1(c, NewCall(c, "update", "drag", data, originalEvents,
                                     foreignSince[c]))
                /\ localEvents' = [localEvents EXCEPT ![c] =
                                      OptimisticEvents(originalEvents, event, start, end)]
                /\ UNCHANGED <<store, uuids, foreignSince, renders>>

\* randomUUID() is called by a create whose input is valid
NextUuids(call) ==
    IF call.op = "create" /\ newEventSchemaIssues(call.input) = <<>>
    THEN uuids + 1 ELSE uuids

\* a form handler calls a server action, which runs up to its write request
\* (or returns): the handler changes nothing of the calendar before the
\* action reads the store
CallAction(c, op, input, fault) ==
    LET call == NewCall(c, op, "form", input, <<>>, foreignSince[c])
    IN  /\ ~ModalBusy(c)
        /\ Issue1(c, ActionRead(call, store, fault, uuids))
        /\ uuids' = NextUuids(call)
        /\ UNCHANGED <<store, localEvents, foreignSince, renders>>

\* the server action called by drop k runs up to its write request (or
\* returns)
ActionReads(k, fault) ==
    /\ calls[k].pc = "called"
    /\ calls' = [calls EXCEPT ![k] = ActionRead(calls[k], store, fault, uuids)]
    /\ uuids' = NextUuids(calls[k])
    /\ UNCHANGED <<store, localEvents, foreignSince, renders>>

\* the store answers the write request of call k with status
ActionWrites(k, status) ==
    /\ calls[k].pc = "writing"
    /\ status \in WriteStatuses(store, calls[k].sha)
    /\ LET accepted == status = StatusOk
           c == calls[k].client
       IN  /\ store' = IF accepted THEN Store("file", calls[k].newText) ELSE store
           /\ calls' = [j \in 1..Len(calls) |->
                          IF j = k THEN ActionWritten(calls[k], status)
                          ELSE IF accepted /\ calls[j].client # c
                                  /\ calls[j].pc \in {"called", "writing"}
                          THEN [calls[j] EXCEPT !.foreignCommit = TRUE]
                          ELSE calls[j]]
           /\ foreignSince' = [d \in Clients |->
                                 IF accepted /\ d # c THEN TRUE ELSE foreignSince[d]]
    /\ UNCHANGED <<localEvents, uuids, renders>>

\* result.errors.forEach(...) of handleSubmit: the issues by field;
\* handleDelete sets no field errors
mappedErrors(call) ==
    IF call.op # "delete" /\ call.result.hasErrors
    THEN [present |-> TRUE, issues |-> call.result.errors]
    ELSE NoFieldErrors

UnexpectedMsg(op) ==
    IF op = "delete" THEN Msg("An unexpected error occurred during delete.", "")
    ELSE Msg("An unexpected error occurred.", "")

\* a modal whose failure branches leave the saving and deleting flags set
ModalAfterKeepsLoading(call, failed, thrown) ==
    IF call.origin # "form" THEN call
    ELSE IF thrown THEN [call EXCEPT !.errorMessage = UnexpectedMsg(call.op)]
    ELSE IF ~failed
    THEN [call EXCEPT !.isLoading = FALSE, !.isDeleting = FALSE,
                      !.isModalOpen = FALSE]
    ELSE [call EXCEPT !.errorMessage = call.result.message,
                      !.fieldErrors = mappedErrors(call)]
\* a modal that closes whatever came back
ModalAfterAlwaysCloses(call, failed, thrown) ==
    [call EXCEPT !.isLoading = FALSE, !.isDeleting = FALSE, !.isModalOpen = FALSE]
\* handleSubmit and handleDelete after their await
ModalAfter(call, failed, thrown) ==
    LET idle == [call EXCEPT !.isLoading = FALSE, !.isDeleting = FALSE]
    IN  IF call.origin # "form" THEN call
        ELSE IF thrown THEN [idle EXCEPT !.errorMessage = UnexpectedMsg(call.op)]
        ELSE IF ~failed THEN [idle EXCEPT !.isModalOpen = FALSE]
        ELSE [idle EXCEPT !.errorMessage = call.result.message,
                          !.fieldErrors = mappedErrors(call)]

\* the caller's continuation after the await: the failure branches of
\* handleEventDrop show alert and roll the mirror back
Continue(k, failed, alert, thrown) ==
    LET c == calls[k].client
        rollback == calls[k].origin = "drag" /\ failed
    IN  /\ calls' = [calls EXCEPT ![k] =
                        [ModalAfter(calls[k], failed, thrown)
                            EXCEPT !.pc = "closed", !.thrown = thrown,
                                   !.alert = IF rollback THEN alert ELSE NoAlert]]
        /\ localEvents' = IF rollback
                          THEN [localEvents EXCEPT ![c] =
                                   Rollback(calls[k].originalEvents, localEvents[c])]
                          ELSE localEvents
        /\ UNCHANGED <<store, uuids, foreignSince, renders>>

\* the result of call k reaches its caller
Deliver(k) ==
    /\ calls[k].pc = "returned"
    /\ Continue(k, ~calls[k].result.success,
                UpdateFailedAlert(calls[k].result.message), FALSE)

\* the call of the server action rejects (its response is lost): the
\* caller's catch branch runs
TransportFails(k) ==
    /\ calls[k].pc = "returned"
    /\ Continue(k, TRUE, UnexpectedAlert, TRUE)

\* the page is rendered again: fetchCalendarEvents() becomes the
\* initialEvents prop and the effect replaces the mirror
Refresh(c, fault) ==
    /\ renders < MaxRenders
    /\ renders' = renders + 1
    /\ localEvents' = [localEvents EXCEPT ![c] = fetchCalendarEvents(store, fault)]
    /\ calls' = [j \in 1..Len(calls) |->
                   IF calls[j].client = c /\ calls[j].pc # "closed" /\ ~fault
                   THEN [calls[j] EXCEPT !.refreshedSince = TRUE]
                   ELSE calls[j]]
    /\ foreignSince' = [foreignSince EXCEPT ![c] = fault /\ foreignSince[c]]
    /\ UNCHANGED <<store, uuids>>

Next ==
    \/ \E c \in Viewers, i \in 1..2, slot \in DropSlots :
          HandleEventDrop(c, i, slot[1], slot[2])
    \/ \E c \in Clients, input \in CreateInputs, fault \in BOOLEAN :
          CallAction(c, "create", input, fault)
    \/ \E c \in Clients, input \in UpdateInputs, fault \in BOOLEAN :
          CallAction(c, "update", input, fault)
    \/ \E c \in Clients, input \in DeleteInputs, fault \in BOOLEAN :
          CallAction(c, "delete", input, fault)
    \/ \E k \in 1..Len(calls), fault \in BOOLEAN : ActionReads(k, fault)
    \/ \E k \in 1..Len(calls), status \in {StatusOk, StatusConflict, StatusUnprocessable, StatusOther} :
          ActionWrites(k, status)
    \/ \E k \in 1..Len(calls) : Deliver(k)
    \/ \E k \in 1..Len(calls) : TransportFails(k)
    \/ \E c \in Viewers, fault \in BOOLEAN : Refresh(c, fault)

Spec == Init /\ [][Next]_vars

\* a pending request of some call is answered by the store, or the result
\* of some call reaches its caller
Progress ==
    \E k \in 1..Len(calls) :
        \/ \E fault \in BOOLEAN : ActionReads(k, fault)
        \/ \E status \in {StatusOk, StatusConflict, StatusUnprocessable, StatusOther} :
              ActionWrites(k, status)
        \/ Deliver(k)
        \/ TransportFails(k)

\* the behaviours in which every request is answered in the end, from an
\* absent file and from a file of four events
LiveStores ==
    {Store("absent", EmptyArrayText),
     Store("file", Text("compact", "array", <<E3, E1, E4, E2>>))}
LiveInit == Init /\ store \in LiveStores
LiveSpec == LiveInit /\ [][Next]_vars /\ WF_vars(Progress)

(***************************************************************************)
(* Vocabulary of the properties.                                           *)
(***************************************************************************)
\* the revision token the store holds now
CurrentSha(st) == IF st.state = "file" THEN ShaOf(st.text) ELSE NoSha

\* the collection the store holds now
StoredItems(st) == IF st.state = "file" THEN st.text.items ELSE <<>>

\* write requests call has issued: the answered ones and the pending one
WritesIssued(call) == call.writes + (IF call.pc = "writing" THEN 1 ELSE 0)

\* this step is the store answering the write request of call k
WriteStep(k) ==
    /\ k \in DOMAIN calls
    /\ calls[k].pc = "writing"
    /\ calls'[k].writes = calls[k].writes + 1

\* this step is the server action of call k reading the store
ReadStep(k) ==
    /\ k \in DOMAIN calls'
    /\ calls'[k].reads = 1
    /\ k \in DOMAIN calls => calls[k].reads = 0

\* this step is the continuation of the caller of call k
CloseStep(k) ==
    /\ k \in DOMAIN calls
    /\ calls[k].pc = "returned"
    /\ calls'[k].pc = "closed"

HasIds(items) ==
    \A i, j \in 1..Len(items) :
        (i # j /\ items[i].kind = "object" /\ items[j].kind = "object")
            => items[i].id # items[j].id

\* items without its element at position t
RemoveAt(items, t) == SubSeq(items, 1, t - 1) \o SubSeq(items, t + 1, Len(items))

(***************************************************************************)
(* C1.  Every call of createCalendarEvent, updateCalendarEventRefined or   *)
(* deleteCalendarEvent issues at most one write request to the store, and  *)
(* none when it ends with a validation failure or a not-found failure.     *)
(***************************************************************************)
C1_AtMostOneWrite ==
    \A k \in DOMAIN calls :
        /\ WritesIssued(calls[k]) <= 1
        /\ calls[k].outcome \in {"validation", "notfound"}
              => WritesIssued(calls[k]) = 0

\* one call was answered by the store and another ended not-found
C1_Witness ==
    \E k, j \in DOMAIN calls :
        /\ calls[k].writes = 1 /\ calls[k].pc \in {"returned", "closed"}
        /\ calls[j].outcome = "notfound" /\ calls[j].reads = 1

(***************************************************************************)
(* C2.  A write whose token is no longer the store's current token is      *)
(* rejected: the store is left as the concurrent writer committed it and   *)
(* the call returns success = false.                                       *)
(***************************************************************************)
StaleToken(k) == CurrentSha(store) # calls[k].sha

C3_UniqueIds == HasIds(StoredItems(store))

\* two events were created into the collection
C3_Witness ==
    /\ \E k, j \in DOMAIN calls :
          /\ k # j
          /\ calls[k].op = "create" /\ calls[k].outcome = "success"
          /\ calls[j].op = "create" /\ calls[j].outcome = "success"
    /\ Len(StoredItems(store)) >= 3

(***************************************************************************)
(* C4.  When the Update of a drag-reschedule fails (its result has         *)
(* success = false, or the call throws), the mirror after the handler's    *)
(* failure branch equals the mirror as it was immediately before the       *)
(* reschedule was applied, and a message is shown to the user.             *)
(***************************************************************************)
\* this step is the failure branch of the handler of drop k
FailedDropStep(k) ==
    /\ CloseStep(k)
    /\ calls[k].origin = "drag"
    /\ calls'[k].thrown \/ ~calls[k].result.success

\* C4 as claimed: the message shown is the message of the operation
C4_RollbackShowsOperationMessage ==
    [][\A k \in DOMAIN calls :
          FailedDropStep(k) =>
              /\ localEvents'[calls[k].client] = calls[k].mirrorBefore
              /\ calls'[k].alert.inner = calls[k].result.message
              /\ calls'[k].alert # NoAlert]_vars

\* C4 as amended: the message of the operation is shown when the Update
\* returned a result; a fixed text is shown when the call threw
C4_RollbackShowsMessage ==
    [][\A k \in DOMAIN calls :
          FailedDropStep(k) =>
              /\ localEvents'[calls[k].client] = calls[k].mirrorBefore
              /\ calls'[k].alert =
                    (IF calls'[k].thrown THEN UnexpectedAlert
                     ELSE UpdateFailedAlert(calls[k].result.message))]_vars

\* a drop that moved an event was rolled back after a conflict, and the
\* mirror shows the event where it was
C4_Witness ==
    \E k \in DOMAIN calls :
        /\ calls[k].origin = "drag" /\ calls[k].pc = "closed"
        /\ calls[k].status = StatusConflict
        /\ calls[k].alert = UpdateFailedAlert(ConflictMsg)
        /\ localEvents[calls[k].client] = calls[k].mirrorBefore
        /\ \E i \in 1..Len(calls[k].mirrorBefore) :
              /\ calls[k].mirrorBefore[i].id = calls[k].input.id
              /\ toISOString(calls[k].mirrorBefore[i].end) # calls[k].input.end

(***************************************************************************)
(* C5.  Once the mirror has been replaced by an authoritative read, no     *)
(* later resolution of a reschedule that was issued before that read puts  *)
(* older optimistic or snapshot data back into the mirror.                 *)
(***************************************************************************)
C5_AuthoritativeReadWins ==
    [][\A k \in DOMAIN calls :
          (CloseStep(k) /\ calls[k].origin = "drag" /\ calls[k].refreshedSince)
              => localEvents'[calls[k].client] = localEvents[calls[k].client]]_vars

(***************************************************************************)
(* C6.  Across a successful create, update or delete every stored event    *)
(* other than the targeted one is written back with every field as it was, *)
(* the events the display read drops included.                             *)
(***************************************************************************)
C6_OthersPreserved ==
    [][\A k \in DOMAIN calls :
          (WriteStep(k) /\ calls'[k].status = StatusOk) =>
              LET old == StoredItems(store)
                  new == StoredItems(store')
                  t == calls[k].target
              IN  CASE calls[k].op = "create" ->
                          /\ Len(new) = Len(old) + 1
                          /\ SubSeq(new, 1, Len(old)) = old
                    [] calls[k].op = "update" ->
                          /\ Len(new) = Len(old)
                          /\ \A i \in 1..Len(old) : i # t => new[i] = old[i]
                    [] OTHER -> new = RemoveAt(old, t)]_vars

\* an update and a delete were committed and the stored event that the
\* display read drops is still stored with every field
C6_Witness ==
    /\ \E k, j \in DOMAIN calls :
          /\ calls[k].op = "update" /\ calls[k].outcome = "success"
          /\ calls[j].op = "create" /\ calls[j].outcome = "success"
    /\ \E i \in 1..Len(StoredItems(store)) :
          StoredItems(store)[i] = E2 /\ ~Displayable(E2)

(***************************************************************************)
(* C7.  When a create, update or delete reads a blob that is not a JSON    *)
(* array, the call returns a failure, issues no write and leaves the blob  *)
(* unchanged; it never goes on as if the collection were empty.            *)
(***************************************************************************)
Unparsable(st) == st.state = "file" /\ st.text.type \in {"invalid", "object"}

C8_StaleMirrorUpdateConflicts ==
    [][\A k \in DOMAIN calls :
          (WriteStep(k) /\ calls[k].origin = "drag" /\ calls[k].foreignCommit)
              => /\ calls'[k].status # StatusOk
                 /\ store' = store]_vars

(***************************************************************************)
(* C9.  updateCalendarEventRefined with valid fields and an id that is not *)
(* in the collection it read returns success = false with a message that   *)
(* contains the id, issues no write and leaves the store unchanged.        *)
(***************************************************************************)
C9_UpdateMissingId ==
    [][\A k \in DOMAIN calls' :
          (/\ ReadStep(k)
           /\ calls'[k].op = "update"
           /\ eventSchemaIssues(calls'[k].input) = <<>>
           /\ calls'[k].outcome # "store"
           /\ MatchAt(StoredItems(store), calls'[k].input.id) = {})
              => /\ calls'[k].pc = "returned"
                 /\ ~calls'[k].result.success
                 /\ calls'[k].result.message.arg = calls'[k].input.id
                 /\ WritesIssued(calls'[k]) = 0
                 /\ store' = store]_vars

(***************************************************************************)
(* C10.  After deleteCalendarEvent for an id has succeeded, another        *)
(* deleteCalendarEvent for the same id returns success = false with the    *)
(* not-found message, issues no write and leaves the collection as the     *)
(* first delete left it.                                                   *)
(***************************************************************************)
DeletedBefore(k, id) ==
    \E j \in DOMAIN calls :
        /\ j # k
        /\ calls[j].op = "delete"
        /\ calls[j].outcome = "success"
        /\ calls[j].input.id = id

C10_SecondDeleteNotFound ==
    [][\A k \in DOMAIN calls' :
          (/\ ReadStep(k)
           /\ calls'[k].op = "delete"
           /\ DeletedBefore(k, calls'[k].input.id))
              => /\ calls'[k].pc = "returned"
                 /\ ~calls'[k].result.success
                 /\ calls'[k].outcome # "store" =>
                        calls'[k].result.message =
                            DeleteNotFoundMsg(calls'[k].input.id)
                 /\ WritesIssued(calls'[k]) = 0
                 /\ store' = store]_vars

\* a delete succeeded and a later delete of the same id was not found
C10_Witness ==
    \E j, k \in DOMAIN calls :
        /\ j < k
        /\ calls[j].op = "delete" /\ calls[j].outcome = "success"
        /\ calls[k].op = "delete" /\ calls[k].outcome = "notfound"
        /\ calls[k].input.id = calls[j].input.id
        /\ calls[k].result.message = DeleteNotFoundMsg(calls[j].input.id)
        /\ calls[k].writes = 0

(***************************************************************************)
(* C11.  createCalendarEvent and updateCalendarEventRefined accept an      *)
(* input only if its start is strictly before its end: an input whose      *)
(* start is its end or after its end is rejected with success = false and  *)
(* an issue on the field end, the store is unchanged and no write is       *)
(* issued; every input that passes validation has start < end.             *)
(***************************************************************************)
\* this step is the action of call k running from its start: it validates
\* its input and, when the input is valid, reads the store
StartStep(k) ==
    /\ k \in DOMAIN calls'
    /\ calls'[k].pc \in {"writing", "returned"}
    /\ k \in DOMAIN calls => calls[k].pc = "called"

HasIssueOn(result, path) ==
    /\ result.hasErrors
    /\ \E i \in 1..Len(result.errors) : result.errors[i].path = path

StartsBeforeEnd(d) ==
    /\ NewDate(d.start) # NaN /\ NewDate(d.end) # NaN
    /\ NewDate(d.start) < NewDate(d.end)

C11_StartStrictlyBeforeEnd ==
    [][\A k \in DOMAIN calls' :
          (StartStep(k) /\ calls'[k].op \in {"create", "update"}) =>
              /\ ~StartsBeforeEnd(calls'[k].input) =>
                    /\ calls'[k].pc = "returned"
                    /\ ~calls'[k].result.success
                    /\ HasIssueOn(calls'[k].result, "end")
                    /\ WritesIssued(calls'[k]) = 0
                    /\ store' = store
              /\ calls'[k].outcome # "validation" =>
                    StartsBeforeEnd(calls'[k].input)]_vars

\* a create whose end is its start and an update whose end is before its
\* start were both rejected with an issue on end
C11_Witness ==
    \E j, k \in DOMAIN calls :
        /\ calls[j].op = "create" /\ calls[k].op = "update"
        /\ NewDate(calls[j].input.start) = NewDate(calls[j].input.end)
        /\ NewDate(calls[k].input.start) > NewDate(calls[k].input.end)
        /\ HasIssueOn(calls[j].result, "end")
        /\ HasIssueOn(calls[k].result, "end")
        /\ calls[j].writes = 0 /\ calls[k].writes = 0

(***************************************************************************)
(* C12.  A call that ends in a validation failure has issued no read       *)
(* request and no write request to the store.                              *)
(***************************************************************************)
C12_InvalidNeverReachesStore ==
    \A k \in DOMAIN calls :
        calls[k].outcome = "validation" =>
            /\ calls[k].reads = 0
            /\ WritesIssued(calls[k]) = 0
            /\ calls[k].sha = NoSha
            /\ ~calls[k].readFault

\* a delete and an update were rejected by validation without a read
C12_Witness ==
    \E j, k \in DOMAIN calls :
        /\ calls[j].op = "delete" /\ calls[j].outcome = "validation"
        /\ calls[k].op = "update" /\ calls[k].outcome = "validation"
        /\ calls[j].reads = 0 /\ calls[k].reads = 0

(***************************************************************************)
(* C13.  The result of a create, update or delete carries the list of      *)
(* field errors if and only if the call failed validation; the results of  *)
(* store, conflict and not-found failures and of successes carry only a    *)
(* message.                                                                *)
(***************************************************************************)
Returned(call) ==
    call.pc \in {"returned", "closed"} /\ call.outcome \notin {"rejected", "rangeerror"}

C13_ErrorsOnlyOnValidation ==
    \A k \in DOMAIN calls :
        Returned(calls[k]) =>
            /\ calls[k].result.hasErrors <=> calls[k].outcome = "validation"
            /\ calls[k].result.hasErrors => calls[k].result.errors # <<>>
            /\ ~calls[k].result.hasErrors => calls[k].result.errors = <<>>
            /\ calls[k].result.message # NoMsg

\* a validation failure with field errors next to a not-found failure
\* without
C13_Witness ==
    \E j, k \in DOMAIN calls :
        /\ calls[j].outcome = "validation" /\ calls[j].result.hasErrors
        /\ calls[j].result.errors # <<>>
        /\ calls[k].outcome = "notfound" /\ ~calls[k].result.hasErrors
        /\ calls[k].result.message = UpdateNotFoundMsg("missing-id")

(***************************************************************************)
(* C14.  Every call of createCalendarEvent, updateCalendarEventRefined,    *)
(* deleteCalendarEvent and fetchCalendarEvents returns a value whatever    *)
(* the store answers (absent, accepted, conflict, any other error,         *)
(* unparsable content); no exception leaves it.                            *)
(***************************************************************************)
C14_AlwaysAResult ==
    /\ \A k \in DOMAIN calls :
          /\ ~calls[k].escaped
          /\ Returned(calls[k]) =>
                /\ calls[k].result # NoResult
                /\ calls[k].result.success <=> calls[k].outcome = "success"
                /\ calls[k].outcome \in {"validation", "store", "typeerror",
                                         "notfound", "write", "success"}
    /\ \A fault \in BOOLEAN :
          Len(fetchCalendarEvents(store, fault)) <= Len(StoredItems(store))

\* a read that failed and a write answered with another error both ended
\* in a result
C14_Witness ==
    \E j, k \in DOMAIN calls :
        /\ calls[j].outcome = "store" /\ calls[j].result = Failure(FetchFailedMsg)
        /\ calls[k].outcome = "write" /\ calls[k].status = StatusOther
        /\ calls[k].result = Failure(UpdateFailedMsg)

(***************************************************************************)
(* C15.  A create, update or delete that returns success = false leaves    *)
(* the stored file and its revision token as they were: the step in which  *)
(* it fails changes nothing of the store, and no write of a failed call    *)
(* was accepted.                                                           *)
(***************************************************************************)
\* this step is the action of call k returning
ReturnStep(k) ==
    /\ k \in DOMAIN calls'
    /\ calls'[k].pc = "returned"
    /\ k \in DOMAIN calls => calls[k].pc \in {"called", "writing"}

C15_FailureLeavesStore ==
    [][\A k \in DOMAIN calls' :
          (ReturnStep(k) /\ ~calls'[k].result.success) =>
              /\ store' = store
              /\ CurrentSha(store') = CurrentSha(store)
              /\ calls'[k].status # StatusOk]_vars

\* a call failed at its write and the file still has the content and the
\* layout it had before any call
C15_Witness ==
    \E k \in DOMAIN calls :
        /\ calls[k].outcome = "write" /\ calls[k].writes = 1
        /\ ~calls[k].result.success
        /\ store \in InitStores
        /\ calls[k].newText # store.text

(***************************************************************************)
(* C16.  After a write was rejected with a conflict the call reads and     *)
(* writes no more: it returns the failure with the message that asks to    *)
(* refresh and try again.                                                  *)
(***************************************************************************)
C16_NoRetryAfterConflict ==
    \A k \in DOMAIN calls :
        calls[k].status = StatusConflict =>
            /\ calls[k].pc \in {"returned", "closed"}
            /\ calls[k].reads = 1 /\ calls[k].writes = 1
            /\ calls[k].result = Failure(ConflictMsg)

\* the caller got the conflict of a call that read once and wrote once
C16_Witness ==
    \E k \in DOMAIN calls :
        /\ calls[k].status = StatusConflict /\ calls[k].pc = "closed"
        /\ calls[k].reads = 1 /\ calls[k].writes = 1
        /\ calls[k].result.message = ConflictMsg

(***************************************************************************)
(* C17.  When nothing is stored at the path, or what is stored is not a    *)
(* file, the read yields the empty collection with no revision token and   *)
(* is not an error; the mutation that follows writes without a token.      *)
(***************************************************************************)
C17_AbsentIsEmpty ==
    [][\A k \in DOMAIN calls' :
          (/\ StartStep(k)
           /\ store.state # "file"
           /\ calls'[k].reads = 1
           /\ ~calls'[k].readFault) =>
              /\ calls'[k].outcome # "store"
              /\ calls'[k].sha = NoSha
              /\ calls'[k].op = "create" =>
                    /\ calls'[k].pc = "writing"
                    /\ calls'[k].newText = JSONstringify(<<calls'[k].event>>)
              /\ calls'[k].op # "create" => calls'[k].outcome = "notfound"]_vars

\* a create found nothing at the path, wrote without a token and the file
\* now holds its event alone
C17_Witness ==
    \E k \in DOMAIN calls :
        /\ calls[k].op = "create" /\ calls[k].outcome = "success"
        /\ calls[k].sha = NoSha
        /\ store = Store("file", JSONstringify(<<calls[k].event>>))

(***************************************************************************)
(* C18.  A read that fails with anything but "absent" during a create,     *)
(* update or delete ends the call with success = false and the message of  *)
(* the failure, without a write; the call does not go on as if the         *)
(* collection were empty.                                                  *)
(***************************************************************************)
C18_ReadFailureIsStoreError ==
    [][\A k \in DOMAIN calls' :
          (StartStep(k) /\ calls'[k].readFault) =>
              /\ calls'[k].pc = "returned"
              /\ calls'[k].result = Failure(FetchFailedMsg)
              /\ WritesIssued(calls'[k]) = 0
              /\ store' = store]_vars

\* a create whose read failed returned the failure while events are stored
C18_Witness ==
    \E k \in DOMAIN calls :
        /\ calls[k].op = "create" /\ calls[k].readFault
        /\ calls[k].result = Failure(FetchFailedMsg)
        /\ calls[k].writes = 0
        /\ Len(StoredItems(store)) > 0

(***************************************************************************)
(* C19.  fetchCalendarEvents returns exactly the stored events that are    *)
(* well formed one by one (id, title, status, start and end present, both  *)
(* dates parseable, start strictly before end), in the order they are      *)
(* stored; every other entry is dropped and the list does not fail.        *)
(***************************************************************************)
Present(x) == x \notin {Undef, JsNull, ""}

WellFormed(e) ==
    /\ e.kind = "object"
    /\ Present(e.id) /\ Present(e.title) /\ Present(e.status)
    /\ e.start.fmt \in {"isoZ", "loose"}
    /\ e.end.fmt \in {"isoZ", "loose"}
    /\ e.start.t < e.end.t

\* the well-formed entries of items, in their order, as the calendar shows
\* them
WellFormedView(items) ==
    LET kept == SelectSeq(items, WellFormed)
    IN  [i \in 1..Len(kept) |->
            [id |-> kept[i].id, title |-> kept[i].title,
             status |-> kept[i].status, notes |-> kept[i].notes,
             attachment |-> kept[i].attachment,
             start |-> kept[i].start.t, end |-> kept[i].end.t]]

C19_DisplayReadKeepsWellFormed ==
    /\ fetchCalendarEvents(store, FALSE) = WellFormedView(StoredItems(store))
    /\ (calls = <<>> /\ renders = 0) =>
          \A c \in Clients : localEvents[c] = WellFormedView(StoredItems(store))

\* the page was rendered again after a create: the calendar shows the two
\* well-formed events out of the five entries stored
C19_Witness ==
    /\ renders = 1
    /\ Len(StoredItems(store)) = 5
    /\ Len(localEvents["A"]) = 2
    /\ localEvents["A"] = WellFormedView(StoredItems(store))
    /\ \E i \in 1..5 : StoredItems(store)[i] = E4

(***************************************************************************)
(* C20.  On the display read, content that is not a JSON array gives the   *)
(* empty list and so does a failure of the read; fetchCalendarEvents       *)
(* neither fails nor changes the store.                                    *)
(***************************************************************************)
\* this step is the page being rendered again
RenderStep == renders' = renders + 1

C20_DisplayReadDegrades ==
    [][RenderStep =>
          /\ store' = store
          /\ fetchCalendarEvents(store, TRUE) = <<>>
          /\ Unparsable(store) => fetchCalendarEvents(store, FALSE) = <<>>
          /\ \A c \in Viewers :
                /\ localEvents'[c] \in {fetchCalendarEvents(store, FALSE), <<>>}
                /\ Unparsable(store) => localEvents'[c] = <<>>]_vars

\* the page was rendered again over an unparsable file and the calendar is
\* empty
C20_Witness ==
    /\ renders = 1
    /\ Unparsable(store)
    /\ localEvents["A"] = <<>>

(***************************************************************************)
(* C21.  revalidatePath('/') runs in a call exactly when the store         *)
(* accepted the write of that call: it runs in the step in which the       *)
(* write is accepted, the call then returns success, and a call that       *)
(* returns a failure has never run it.                                     *)
(***************************************************************************)
C21_RevalidateIffAccepted ==
    [][\A k \in DOMAIN calls' :
          /\ calls'[k].revalidated <=>
                (calls'[k].writes = 1 /\ calls'[k].status = StatusOk)
          /\ calls'[k].revalidated =>
                (Returned(calls'[k]) /\ calls'[k].result.success)
          /\ (Returned(calls'[k]) /\ calls'[k].result.success) =>
                calls'[k].revalidated
          /\ (calls'[k].revalidated /\ ~(k \in DOMAIN calls /\ calls[k].revalidated))
                => (WriteStep(k) /\ store' = Store("file", calls[k].newText))]_vars

\* one call revalidated and returned success; another was answered with a
\* conflict, returned a failure and did not revalidate
C21_Witness ==
    \E k, j \in DOMAIN calls :
        /\ calls[k].revalidated /\ calls[k].result.success
        /\ calls[j].status = StatusConflict /\ calls[j].pc = "returned"
        /\ ~calls[j].result.success /\ ~calls[j].revalidated

(***************************************************************************)
(* C22.  A drop whose new start or end is not a well-formed date, or whose *)
(* start is not before its end, is rejected at once: the mirror stays as   *)
(* it was and updateCalendarEventRefined is not called.  Stated on the     *)
(* step of handleEventDrop: either the handler ended without a call and    *)
(* left the mirror alone, or it called the action with well-formed dates   *)
(* whose start is before the end.                                          *)
(***************************************************************************)
\* this step is handleEventDrop running up to its await or its return, as
\* call k
DropStep(k) ==
    /\ k \in DOMAIN calls' /\ k \notin DOMAIN calls
    /\ calls'[k].origin = "drag"

C22_InvalidDropRejected ==
    [][\A k \in DOMAIN calls' :
          DropStep(k) =>
             \/ /\ calls'[k].pc = "closed"
                /\ localEvents' = localEvents
             \/ /\ calls'[k].pc = "called"
                /\ calls'[k].input.start.fmt = "isoZ"
                /\ calls'[k].input.end.fmt = "isoZ"
                /\ DateLess(NewDate(calls'[k].input.start),
                            NewDate(calls'[k].input.end))]_vars

(***************************************************************************)
(* C23.  For every valid drop the mirror is changed before the update is   *)
(* issued, and it shows the new start and end in every state in which the  *)
(* update is issued and its result has not reached handleEventDrop.        *)
(***************************************************************************)
\* call k is an update of a drop whose result has not reached the handler
InFlightDrop(k) ==
    /\ calls[k].origin = "drag"
    /\ calls[k].pc \in {"called", "writing", "returned"}

\* the mirror of the client of call k shows the event of the call on the
\* slot the call was issued with
MirrorShowsDrop(k) ==
    \E i \in 1..Len(localEvents[calls[k].client]) :
        /\ localEvents[calls[k].client][i].id = calls[k].input.id
        /\ localEvents[calls[k].client][i].start = NewDate(calls[k].input.start)
        /\ localEvents[calls[k].client][i].end = NewDate(calls[k].input.end)

C23_MirrorShowsDropInFlight ==
    \A k \in DOMAIN calls : InFlightDrop(k) => MirrorShowsDrop(k)

(***************************************************************************)
(* C24.  When the update of a drop has succeeded and nothing else was      *)
(* issued or rendered meanwhile, the mirror's copy of the dropped event is *)
(* the committed event in every field: id, title, status, notes,           *)
(* attachment, start and end.                                              *)
(***************************************************************************)
\* the mirror entry b and the stored entry e agree on every field
SameEvent(b, e) ==
    /\ e.kind = "object"
    /\ b.id = e.id /\ b.title = e.title /\ b.status = e.status
    /\ b.notes = e.notes /\ b.attachment = e.attachment
    /\ toISOString(b.start) = e.start /\ toISOString(b.end) = e.end

C24_MirrorEqualsCommitted ==
    \A k \in DOMAIN calls :
        ( /\ Len(calls) = 1 /\ renders = 0
          /\ calls[k].origin = "drag" /\ calls[k].outcome = "success"
          /\ ~calls[k].thrown )
        => \E i \in 1..Len(localEvents[calls[k].client]),
              j \in 1..Len(StoredItems(store)) :
              /\ localEvents[calls[k].client][i].id = calls[k].input.id
              /\ SameEvent(localEvents[calls[k].client][i], StoredItems(store)[j])

(***************************************************************************)
(* C25.  An accepted write of createCalendarEvent on a collection of n     *)
(* events commits n + 1 events: the n events as they were, followed by one *)
(* event that has the fields of the input and an id that none of the n     *)
(* events has.  On an absent file or an empty collection it commits        *)
(* exactly that one event.                                                 *)
(***************************************************************************)
\* the stored event e has the fields of the input d of a create
HasInputFields(e, d) ==
    /\ e.kind = "object"
    /\ e.title = d.title /\ e.start = d.start /\ e.end = d.end
    /\ e.status = d.status /\ e.notes = d.notes /\ e.attachment = d.attachment

C25_CreateAddsExactlyOne ==
    [][\A k \in DOMAIN calls :
          (WriteStep(k) /\ calls[k].op = "create" /\ calls'[k].status = StatusOk) =>
              LET old == StoredItems(store)
                  new == StoredItems(store')
              IN  /\ store'.state = "file"
                  /\ Len(new) = Len(old) + 1
                  /\ \A i \in 1..Len(old) : new[i] = old[i]
                  /\ HasInputFields(new[Len(new)], calls[k].input)
                  /\ ~Falsy(new[Len(new)].id)
                  /\ \A i \in 1..Len(old) :
                        old[i].kind = "object" => old[i].id # new[Len(new)].id]_vars

\* a create was committed on an absent file, a second one on the collection
\* of one event the first left
C25_Witness ==
    /\ Len(calls) = 2
    /\ \A k \in DOMAIN calls : calls[k].op = "create" /\ calls[k].outcome = "success"
    /\ Len(StoredItems(store)) = 2
    /\ StoredItems(store)[1].id # StoredItems(store)[2].id

(***************************************************************************)
(* C26.  An accepted write of updateCalendarEventRefined leaves the        *)
(* sequence of ids as it was, in number and in position, and replaces the  *)
(* fields of the one element whose id is the id of the input.              *)
(***************************************************************************)
C26_UpdateKeepsIds ==
    [][\A k \in DOMAIN calls :
          (WriteStep(k) /\ calls[k].op = "update" /\ calls'[k].status = StatusOk) =>
              LET old == StoredItems(store)
                  new == StoredItems(store')
                  t == calls[k].target
              IN  /\ Len(new) = Len(old)
                  /\ \A i \in 1..Len(old) :
                        new[i].kind = old[i].kind /\ new[i].id = old[i].id
                  /\ t \in 1..Len(old)
                  /\ old[t].id = calls[k].input.id
                  /\ new[t] = SchemaData(calls[k].input, old[t].id)]_vars

\* an update of the second of four stored events was committed
C26_Witness ==
    \E k \in DOMAIN calls :
        /\ calls[k].op = "update" /\ calls[k].outcome = "success"
        /\ calls[k].target = 2
        /\ Len(StoredItems(store)) = 4
        /\ StoredItems(store)[2].id = "e1"
        /\ StoredItems(store)[2].title = calls[k].input.title
        /\ StoredItems(store)[1] = E3

(***************************************************************************)
(* C27.  When a mutation issued from the modal fails, the modal stays open *)
(* with the error shown and its controls enabled again; when it succeeds,  *)
(* the modal is closed; no failed mutation closes the modal.               *)
(***************************************************************************)
\* the inputs of the form: an issue is shown under the input of its path
FormFields == {"title", "start", "end", "status", "notes", "attachment"}

\* the modal of call shows an error: the general message when there are no
\* field errors, otherwise the messages of the issues under their inputs
ErrorShown(call) ==
    IF call.fieldErrors.present
    THEN \E i \in 1..Len(call.fieldErrors.issues) :
            call.fieldErrors.issues[i].path \in FormFields
    ELSE call.errorMessage # NoMsg

C27_ModalFollowsOutcome ==
    [][\A k \in DOMAIN calls :
          (CloseStep(k) /\ calls[k].origin = "form") =>
             /\ ~calls'[k].isLoading /\ ~calls'[k].isDeleting
             /\ IF calls[k].result.success /\ ~calls'[k].thrown
                THEN ~calls'[k].isModalOpen
                ELSE calls'[k].isModalOpen /\ ErrorShown(calls'[k])]_vars

\* one mutation of the modal succeeded and closed it; another failed and
\* left it open on the message of its result
C27_Witness ==
    \E k, j \in DOMAIN calls :
        /\ calls[k].origin = "form" /\ calls[k].pc = "closed"
        /\ calls[k].result.success /\ ~calls[k].isModalOpen
        /\ calls[j].origin = "form" /\ calls[j].pc = "closed"
        /\ ~calls[j].result.success /\ calls[j].isModalOpen
        /\ calls[j].errorMessage = calls[j].result.message
        /\ ~calls[j].fieldErrors.present /\ ~calls[j].isLoading

(***************************************************************************)
(* C28.  Every accepted write carries a message that names the kind of the *)
(* operation (Create, Update, Delete) and the id of the one event the      *)
(* write inserts, replaces or removes.                                     *)
(***************************************************************************)
\* the first words of the commit message of an operation
KindOf(op) ==
    CASE op = "create" -> "Create event"
      [] op = "update" -> "Update event"
      [] OTHER -> "Delete event"

C28_WriteIsDescribed ==
    [][\A k \in DOMAIN calls :
          (WriteStep(k) /\ calls'[k].status = StatusOk) =>
              LET old == StoredItems(store)
                  new == StoredItems(store')
                  t == calls[k].target
                  m == calls[k].commitMessage
              IN  /\ m.kind = KindOf(calls[k].op)
                  /\ ~Falsy(m.id)
                  /\ CASE calls[k].op = "create" ->
                              t = Len(new) /\ new[t].id = m.id
                        [] calls[k].op = "update" ->
                              new[t].id = m.id /\ old[t].id = m.id
                        [] OTHER ->
                              /\ old[t].id = m.id
                              /\ \A i \in 1..Len(new) : new[i].id # m.id]_vars

\* a create and a delete were committed, each under its own message
C28_Witness ==
    \E k, j \in DOMAIN calls :
        /\ calls[k].op = "create" /\ calls[k].outcome = "success"
        /\ calls[k].commitMessage = commitMessage("Create event", "New", "uuid-0")
        /\ calls[j].op = "delete" /\ calls[j].outcome = "success"
        /\ calls[j].commitMessage = commitMessage("Delete event", "Launch post", "e1")

(***************************************************************************)
(* C29.  Within one client at most one mutation is in flight at any time:  *)
(* the client issues no mutation while one it issued is unresolved.        *)
(***************************************************************************)
\* the calls of client c whose result has not reached their handler
InFlight(c) ==
    {k \in DOMAIN calls :
        calls[k].client = c /\ calls[k].pc \in {"called", "writing", "returned"}}

C29_OneMutationInFlight ==
    \A c \in Clients : Cardinality(InFlight(c)) <= 1

(***************************************************************************)
(* C30.  Whenever the store accepts a write, the committed collection is   *)
(* the transformation of the mutation applied to the collection the store  *)
(* held immediately before the write; and a call returns success exactly   *)
(* when one write of it was accepted.                                      *)
(***************************************************************************)
\* the transformation of call applied to the collection items
Transformed(call, items) ==
    CASE call.op = "create" -> AppendEvent(items, call.event)
      [] call.op = "update" ->
            ReplaceAt(items, findIndex(items, call.event.id).index, call.event)
      [] OTHER -> filterOut(items, call.input.id).events

C30_CommitIsTransformOfCurrent ==
    [][/\ \A k \in DOMAIN calls :
            (WriteStep(k) /\ calls'[k].status = StatusOk) =>
                /\ store'.state = "file"
                /\ StoredItems(store') = Transformed(calls[k], StoredItems(store))
       /\ \A k \in DOMAIN calls' :
            Returned(calls'[k]) =>
                (calls'[k].result.success <=>
                    (calls'[k].writes = 1 /\ calls'[k].status = StatusOk))]_vars

\* two calls read the same collection; the write of the first was accepted
\* and the write of the second, computed from the collection it read, was
\* refused
C30_Witness ==
    \E k, j \in DOMAIN calls :
        /\ calls[k].outcome = "success" /\ calls[k].op = "update"
        /\ calls[j].status = StatusConflict /\ calls[j].op = "delete"
        /\ ~calls[j].result.success /\ calls[j].writes = 1
        /\ StoredItems(store) = Transformed(calls[k], <<E3, E1, E4, E2>>)

(***************************************************************************)
(* C31.  Two calls that both read the store while the file was absent, and *)
(* so both write without a revision token, are never both accepted with    *)
(* the second replacing what the first committed: the write without token  *)
(* that finds the file present is refused and its call returns a failure,  *)
(* and what the accepted one committed is still stored.                    *)
(***************************************************************************)
\* call has sent its write request without a revision token
WroteWithoutToken(call) == call.writes = 1 /\ call.sha = NoSha

\* the event of call is an element of the stored collection
InStore(call) ==
    \E i \in 1..Len(StoredItems(store)) : StoredItems(store)[i] = call.event

\* of two calls that wrote without token, each accepted one still has its
\* event stored
NoSilentReplace ==
    \A k, j \in DOMAIN calls :
        (k # j /\ WroteWithoutToken(calls[k]) /\ WroteWithoutToken(calls[j])) =>
            /\ calls[k].result.success => InStore(calls[k])
            /\ ~(calls[k].result.success /\ calls[j].result.success)

C31_NullTokenWritesDoNotReplace ==
    [][/\ \A k \in DOMAIN calls :
            (WriteStep(k) /\ calls[k].sha = NoSha /\ store.state = "file") =>
                /\ calls'[k].status # StatusOk
                /\ store' = store
                /\ ~calls'[k].result.success
                /\ calls'[k].result.message # NoMsg
       /\ NoSilentReplace']_vars

\* two creates read the file as absent; the first was accepted, the second
\* was answered 422 and returned the failure
C31_Witness ==
    \E k, j \in DOMAIN calls :
        /\ k # j
        /\ WroteWithoutToken(calls[k]) /\ WroteWithoutToken(calls[j])
        /\ calls[k].result.success /\ InStore(calls[k])
        /\ calls[j].status = StatusUnprocessable
        /\ calls[j].result = Failure(UnprocessableMsg)
        /\ ~InStore(calls[j])

(***************************************************************************)
(* C32.  An accepted update of a drop changes only the start and the end   *)
(* of the dropped event in the store: its id, title, status, notes and     *)
(* attachment are committed as they were in the collection the update      *)
(* read.                                                                   *)
(***************************************************************************)
C32_DropChangesOnlyDates ==
    [][\A k \in DOMAIN calls :
          (WriteStep(k) /\ calls[k].origin = "drag" /\ calls'[k].status = StatusOk) =>
              LET old == StoredItems(store)[calls[k].target]
                  new == StoredItems(store')[calls[k].target]
              IN  /\ new.id = old.id /\ new.title = old.title
                  /\ new.status = old.status /\ new.notes = old.notes
                  /\ new.attachment = old.attachment]_vars

(***************************************************************************)
(* C33.  When two drops of one client overlap and both have resolved, with *)
(* no page render in between, the mirror shows the dropped event on the    *)
(* slot of the drop that succeeded, or on its original slot when none      *)
(* succeeded: the rollback of a failed drop does not undo the optimistic   *)
(* change of the other.                                                    *)
(***************************************************************************)
\* call k is a drop that called the action and whose handler has finished
ResolvedDrop(k) ==
    /\ calls[k].origin = "drag" /\ calls[k].pc = "closed"
    /\ calls[k].outcome \notin {"rejected", "rangeerror"}
    /\ ~calls[k].thrown

\* the mirror of client c shows the event id on the slot start..end
ShowsSlot(c, id, start, end) ==
    \E i \in 1..Len(localEvents[c]) :
        /\ localEvents[c][i].id = id
        /\ localEvents[c][i].start = start /\ localEvents[c][i].end = end

C33_OverlappingDropsSettle ==
    ( /\ Len(calls) = 2 /\ renders = 0
      /\ ResolvedDrop(1) /\ ResolvedDrop(2)
      /\ calls[1].client = calls[2].client )
    => LET c == calls[1].client
           ok1 == calls[1].result.success
           ok2 == calls[2].result.success
       IN  /\ (ok1 /\ ~ok2) =>
                ShowsSlot(c, calls[1].input.id, NewDate(calls[1].input.start),
                          NewDate(calls[1].input.end))
           /\ (ok2 /\ ~ok1) =>
                ShowsSlot(c, calls[2].input.id, NewDate(calls[2].input.start),
                          NewDate(calls[2].input.end))
           /\ (~ok1 /\ ~ok2) => localEvents[c] = calls[1].originalEvents

(***************************************************************************)
(* C34.  Applying an optimistic reschedule, and rolling one back, never    *)
(* adds or removes events of the mirror and never changes a mirror event   *)
(* other than the one that has the id of the dragged event.                *)
(***************************************************************************)
\* the mirror of client c is changed at most in its events of this id
OnlyEventChanged(c, id) ==
    /\ Len(localEvents'[c]) = Len(localEvents[c])
    /\ \A i \in 1..Len(localEvents[c]) :
          /\ localEvents'[c][i].id = localEvents[c][i].id
          /\ localEvents[c][i].id # id => localEvents'[c][i] = localEvents[c][i]

C34_DropTouchesOnlyItsEvent ==
    [][\A k \in DOMAIN calls' :
          /\ (DropStep(k) /\ calls'[k].pc = "called") =>
                OnlyEventChanged(calls'[k].client, calls'[k].input.id)
          /\ (k \in DOMAIN calls /\ CloseStep(k) /\ calls[k].origin = "drag") =>
                OnlyEventChanged(calls[k].client, calls[k].input.id)]_vars

(***************************************************************************)
(* C35.  Every accepted write keeps the relative order of the stored       *)
(* events: a create puts the new event after all the others, an update     *)
(* keeps the replaced event at its position, and a delete keeps the        *)
(* remaining events in their order and removes exactly the events whose    *)
(* id is the target.                                                       *)
(***************************************************************************)
\* the ids of the collection, position by position
IdsOf(items) == [i \in 1..Len(items) |-> items[i].id]

C35_OrderKept ==
    [][\A k \in DOMAIN calls :
          (WriteStep(k) /\ calls'[k].status = StatusOk) =>
              LET old == StoredItems(store)
                  new == StoredItems(store')
                  id == calls[k].input.id
              IN  CASE calls[k].op = "create" ->
                          /\ IdsOf(new) = Append(IdsOf(old), calls[k].event.id)
                          /\ new[Len(new)] = calls[k].event
                    [] calls[k].op = "update" ->
                          /\ IdsOf(new) = IdsOf(old)
                          /\ new[calls[k].target] = calls[k].event
                          /\ calls[k].event.id = id
                    [] OTHER ->
                          /\ new = SelectSeq(old, LAMBDA e : e.id # id)
                          /\ Len(new) < Len(old)]_vars

\* a delete of the second of four stored events was committed: the three
\* others are stored in the order they had
C35_Witness ==
    \E k \in DOMAIN calls :
        /\ calls[k].op = "delete" /\ calls[k].outcome = "success"
        /\ calls[k].input.id = "e1"
        /\ StoredItems(store) = <<E3, E4, E2>>

(***************************************************************************)
(* C36.  When every request to the store is answered in the end, every     *)
(* create, update and delete call returns a result, every drop reaches its *)
(* keep or its rollback, and the modal of every form mutation is closed or *)
(* has its saving and deleting flags cleared: no call stays in flight.     *)
(***************************************************************************)
\* call k has come to its end at its caller
Resolved(k) ==
    /\ k \in DOMAIN calls
    /\ calls[k].pc = "closed"
    /\ calls[k].outcome # "none"
    /\ calls[k].origin = "form" =>
          (~calls[k].isModalOpen \/ (~calls[k].isLoading /\ ~calls[k].isDeleting))

====
